---- MODULE Spec2Model ----
(***************************************************************************)
(* Model of tools/localization.py: the gap detector                        *)
(* (TranslationDetector), the translation inserter (TranslationInserter),  *)
(* the new-key tracker (NewKeyTracker) and the format-specifier protection *)
(* of TranslationGenerator.translate.                                      *)
(*                                                                         *)
(* A JSON object (a Python dict) is a function whose domain is its set of  *)
(* member names; the empty dict is the empty function <<>>.  The order in  *)
(* which Python iterates over a dict is the order of the members in the    *)
(* document; the model fixes that order as KeyOrder.                       *)
(***************************************************************************)
EXTENDS Integers, Sequences, FiniteSets, TLC

VARIABLES
    localizable_data,      \* the catalog document shared by detector, inserter, tracker
    supported_languages,   \* TranslationDetector.supported_languages (a list)
    keys_data,             \* the tracked-key document, or None
    translations_inserted, \* TranslationInserter.translations_inserted
    new_keys,              \* NewKeyTracker.new_keys (a list)
    last,                  \* the last call made: operation and arguments
    ret,                   \* what the last call returned
    loaded_strings,        \* history: the catalog's strings mapping at load time
    source_text,           \* the text handed to translate (the text of a catalog key),
                           \* or the text or document handed to the website generator
    framework_available,   \* TranslationGenerator.framework_available
    shim_exists,           \* whether the file at TranslationGenerator.shim_path exists
    missing_language_packs,\* TranslationGenerator.missing_language_packs
    ext,                   \* what the external service did in the last translate call
    restored,              \* history: translated_text after the sentinels were restored
    submitted,             \* history: the invocations of the external service, in order
                           \* (those of the last call, for the website generator)
    pc,                    \* where a run of main stands
    args,                  \* the command-line flags of the run
    files,                 \* what the run finds on disk: the three documents and the shim
    exit_status,           \* what main returned, "running" before
    main_missing_translations, \* missing_translations of main, None before the detection
    todo,                  \* the (key, language) pairs the current loop of main has left
    statistics,            \* translations_generated and translations_skipped, None if unbound
    written,               \* history: the files the run created or modified
    reached,               \* history: the stages the run went through
    attempted              \* history: the translate calls of the run of main, or
                           \* of the last call of the generator, in order

apiVars == <<localizable_data, supported_languages, keys_data, translations_inserted,
             new_keys, loaded_strings>>

genVars == <<source_text, framework_available, shim_exists, missing_language_packs,
             ext, restored, submitted>>

runVars == <<pc, args, files, exit_status, main_missing_translations, todo, statistics,
             written, reached, attempted>>

vars == <<apiVars, last, ret, genVars, runVars>>

----------------------------------------------------------------------------
(* Bounds of the model and the finite sets inputs are drawn from. *)

\* longest supported-language list
MaxLangs == 2
\* most insertions that take effect in one behaviour
MaxInserts == 2
\* longest source text of the round trip through an echoing service
MaxLen == 4
\* longest source text handed to translate with a free service output
MaxSrc == 3
\* longest output of the external service
MaxOut == 2
\* most pieces (specifiers, letters) of a text handed to the validation
MaxPieces == 3
\* most invocations of the external service in a sequence of calls
MaxCalls == 2

Keys == {"", "Save", "Open"}
KeyOrder == <<"", "Save", "Open">>
LangCodes == {"en", "fr"}
Texts == {"t1", "t2"}

\* Python's None
None == [py_none |-> TRUE]

\* a returned value, tagged with what it is (a bare None otherwise)
Returned(tag, v) == [t \in {tag} |-> v]

\* the elements of a list
Elements(list) == { list[i] : i \in 1..Len(list) }

\* dict.get(k, default)
Get(d, k, default) == IF k \in DOMAIN d THEN d[k] ELSE default

\* truth value of an optional dict: None and {} are false
Truthy(d) == d # None /\ DOMAIN d # {}

\* the members of dict d in iteration order
Members(d) == SelectSeq(KeyOrder, LAMBDA k : k \in DOMAIN d)

\* an entry as found in a loaded catalog (any state, any value)
LoadedEntry == [stringUnit |-> [state |-> "needs_review", value |-> "old"]]

\* the records a catalog may hold for a key
KeyDatas ==
    {<<>>} \cup { [localizations |-> [l \in S |-> LoadedEntry]] : S \in SUBSET LangCodes }

\* the strings mappings of a catalog
Catalogs == UNION { [D -> KeyDatas] : D \in SUBSET Keys }

\* the metadata a tracked key may carry
KeyInfos == {<<>>, [skip_localization |-> TRUE], [skip_localization |-> FALSE]}

\* the tracked-key documents (or None, or the empty document)
KeysDocs ==
    {None, <<>>} \cup
    { [strings |-> s] : s \in UNION { [D -> KeyInfos] : D \in SUBSET Keys } }

\* the lists over LangCodes of length at most n
RECURSIVE ListsUpTo(_)
ListsUpTo(n) ==
    IF n = 0 THEN {<<>>}
    ELSE LET shorter == ListsUpTo(n - 1)
         IN shorter \cup { Append(s, l) : s \in shorter, l \in LangCodes }

LangLists == ListsUpTo(MaxLangs)

----------------------------------------------------------------------------
(* TranslationDetector *)

\* missing_langs_loop with the missing languages collected in reverse order
RECURSIVE missing_langs_loop_reversed(_, _, _)
missing_langs_loop_reversed(langs, localizations, missing_langs) ==
    IF langs = <<>> THEN missing_langs
    ELSE LET lang == Head(langs)
         IN missing_langs_loop_reversed(Tail(langs), localizations,
                IF lang \notin DOMAIN localizations
                THEN <<lang>> \o missing_langs
                ELSE missing_langs)

\* the inner loop of find_missing_translations: the languages of langs, in
\* order, that are not members of localizations
RECURSIVE missing_langs_loop(_, _, _)
missing_langs_loop(langs, localizations, missing_langs) ==
    IF langs = <<>> THEN missing_langs
    ELSE LET lang == Head(langs)
         IN missing_langs_loop(Tail(langs), localizations,
                IF lang \notin DOMAIN localizations
                THEN Append(missing_langs, lang)
                ELSE missing_langs)

\* skip_key with the skip_localization flag ignored
skip_key_ignored(kd, key) == FALSE

\* whether keys.json marks the key with skip_localization
skip_key(kd, key) ==
    Truthy(kd) /\ Get(Get(Get(kd, "strings", <<>>), key, <<>>), "skip_localization", FALSE)

\* the outer loop of find_missing_translations over the catalog's keys
RECURSIVE find_missing_loop(_, _, _, _, _)
find_missing_loop(keys, strings, langs, kd, missing_translations) ==
    IF keys = <<>> THEN missing_translations
    ELSE LET key == Head(keys)
             rest == Tail(keys)
         IN IF key = ""
            THEN find_missing_loop(rest, strings, langs, kd, missing_translations)
            ELSE IF skip_key(kd, key)
            THEN find_missing_loop(rest, strings, langs, kd, missing_translations)
            ELSE LET localizations == Get(strings[key], "localizations", <<>>)
                     missing_langs == missing_langs_loop(langs, localizations, <<>>)
                 IN find_missing_loop(rest, strings, langs, kd,
                        IF missing_langs # <<>>
                        THEN missing_translations @@ (key :> missing_langs)
                        ELSE missing_translations)

\* find_missing_translations going through the tracked keys of the catalog only
find_missing_translations_of_tracked_keys(data, langs, kd) ==
    LET strings == Get(data, "strings", <<>>)
        tracked == IF Truthy(kd) THEN DOMAIN Get(kd, "strings", <<>>) ELSE {}
    IN find_missing_loop(SelectSeq(Members(strings), LAMBDA k : k \in tracked),
                         strings, langs, kd, <<>>)

find_missing_translations(data, langs, kd) ==
    LET strings == Get(data, "strings", <<>>)
    IN find_missing_loop(Members(strings), strings, langs, kd, <<>>)

----------------------------------------------------------------------------
(* TranslationInserter *)

\* the stringUnit structure insert_translation creates
NewEntry(translated_text) ==
    [stringUnit |-> [state |-> "translated", value |-> translated_text]]

\* insert_translation without the check for an existing translation
insert_translation_overwrite(data, inserted, key, language, translated_text) ==
    IF key \notin DOMAIN Get(data, "strings", <<>>)
    THEN [data |-> data, inserted |-> inserted]
    ELSE LET key_data == data.strings[key]
             localizations == Get(key_data, "localizations", <<>>)
         IN [data |-> [data EXCEPT !.strings[key] =
                          [k \in DOMAIN key_data \cup {"localizations"} |->
                              IF k = "localizations"
                              THEN (language :> NewEntry(translated_text)) @@ localizations
                              ELSE key_data[k]]],
             inserted |-> inserted + 1]

\* insert_translation creating the key when the catalog does not hold it
insert_translation_adds_key(data, inserted, key, language, translated_text) ==
    LET strings == Get(data, "strings", <<>>)
        key_data == Get(strings, key, <<>>)
        localizations == Get(key_data, "localizations", <<>>)
    IN IF language \in DOMAIN localizations
       THEN [data |-> data, inserted |-> inserted]
       ELSE [data |-> [data EXCEPT !.strings =
                          (key :> [localizations |->
                                      localizations @@ (language :> NewEntry(translated_text))])
                          @@ strings],
             inserted |-> inserted + 1]

\* insert_translation counting the preserved entries too
insert_translation_counts_calls(data, inserted, key, language, translated_text) ==
    IF key \notin DOMAIN Get(data, "strings", <<>>)
    THEN [data |-> data, inserted |-> inserted]
    ELSE LET key_data == data.strings[key]
             localizations == Get(key_data, "localizations", <<>>)
         IN IF language \in DOMAIN localizations
            THEN [data |-> data, inserted |-> inserted + 1]
            ELSE [data |-> [data EXCEPT !.strings[key] =
                               [k \in DOMAIN key_data \cup {"localizations"} |->
                                   IF k = "localizations"
                                   THEN localizations @@ (language :> NewEntry(translated_text))
                                   ELSE key_data[k]]],
                  inserted |-> inserted + 1]

\* insert_translation putting the new entry in the place of the key's
\* localizations
insert_translation_drops_localizations(data, inserted, key, language, translated_text) ==
    IF key \notin DOMAIN Get(data, "strings", <<>>)
    THEN [data |-> data, inserted |-> inserted]
    ELSE LET key_data == data.strings[key]
             localizations == Get(key_data, "localizations", <<>>)
         IN IF language \in DOMAIN localizations
            THEN [data |-> data, inserted |-> inserted]
            ELSE [data |-> [data EXCEPT !.strings[key] =
                               [k \in DOMAIN key_data \cup {"localizations"} |->
                                   IF k = "localizations"
                                   THEN (language :> NewEntry(translated_text))
                                   ELSE key_data[k]]],
                  inserted |-> inserted + 1]

\* insert_translation: the catalog and the insertion count after the call
insert_translation(data, inserted, key, language, translated_text) ==
    IF key \notin DOMAIN Get(data, "strings", <<>>)
    THEN [data |-> data, inserted |-> inserted]
    ELSE LET key_data == data.strings[key]
             localizations == Get(key_data, "localizations", <<>>)
         IN IF language \in DOMAIN localizations
            THEN [data |-> data, inserted |-> inserted]
            ELSE [data |-> [data EXCEPT !.strings[key] =
                               [k \in DOMAIN key_data \cup {"localizations"} |->
                                   IF k = "localizations"
                                   THEN localizations @@ (language :> NewEntry(translated_text))
                                   ELSE key_data[k]]],
                  inserted |-> inserted + 1]

----------------------------------------------------------------------------
(* NewKeyTracker *)

\* find_new_keys_loop taking a key for new as soon as it lacks "en"
RECURSIVE find_new_keys_loop_incomplete(_, _, _)
find_new_keys_loop_incomplete(keys, localizable_strings, acc) ==
    IF keys = <<>> THEN acc
    ELSE LET key == Head(keys)
         IN find_new_keys_loop_incomplete(Tail(keys), localizable_strings,
                IF key \notin DOMAIN localizable_strings
                THEN Append(acc, key)
                ELSE LET localizations == Get(localizable_strings[key], "localizations", <<>>)
                     IN IF "en" \notin DOMAIN localizations
                        THEN Append(acc, key)
                        ELSE acc)

\* the loop of find_new_keys over the keys of keys.json
RECURSIVE find_new_keys_loop(_, _, _)
find_new_keys_loop(keys, localizable_strings, acc) ==
    IF keys = <<>> THEN acc
    ELSE LET key == Head(keys)
         IN find_new_keys_loop(Tail(keys), localizable_strings,
                IF key \notin DOMAIN localizable_strings
                THEN Append(acc, key)
                ELSE LET localizations == Get(localizable_strings[key], "localizations", <<>>)
                     IN IF Cardinality(DOMAIN localizations) = 0
                        THEN Append(acc, key)
                        ELSE acc)

\* find_new_keys: the list assigned to self.new_keys and returned
find_new_keys(data, kd) ==
    LET localizable_strings == Get(data, "strings", <<>>)
        keys_strings == Get(kd, "strings", <<>>)
    IN find_new_keys_loop(Members(keys_strings), localizable_strings, <<>>)

\* the loop of create_to_localize_structure over self.new_keys
RECURSIVE to_localize_loop(_, _)
to_localize_loop(keys, strings) ==
    IF keys = <<>> THEN strings
    ELSE to_localize_loop(Tail(keys),
             [k \in DOMAIN strings \cup {Head(keys)} |-> <<>>])

\* create_to_localize_structure without the first new key
create_to_localize_structure_drops_first(keys) ==
    [sourceLanguage |-> "en",
     strings |-> to_localize_loop(IF keys = <<>> THEN keys ELSE Tail(keys), <<>>),
     version |-> "1.0"]

\* create_to_localize_structure: the structure built from self.new_keys
create_to_localize_structure(keys) ==
    [sourceLanguage |-> "en", strings |-> to_localize_loop(keys, <<>>), version |-> "1.0"]

----------------------------------------------------------------------------
(* TranslationGenerator: texts *)

(* A text is a sequence of atoms.  An atom is one character, or one whole   *)
(* sentinel token "__PLACEHOLDER_<i>__".  No character of the alphabets     *)
(* below is "_", an upper-case letter of PLACEHOLDER, or part of a token in *)
(* any other way, so a token can only be found where a token atom stands:   *)
(* substring search and replacement on atoms are those on characters.       *)

\* the characters \d matches
Digits == {"0", "1", "2", "3", "4", "5", "6", "7", "8", "9"}

\* [@diouxXeEfFgGaAcspn]
ConversionChars ==
    {"@", "d", "i", "o", "u", "x", "X", "e", "E", "f", "F", "g", "G", "a", "A",
     "c", "s", "p", "n"}

\* [diouxX]
IntegerConversionChars == {"d", "i", "o", "u", "x", "X"}

\* the characters str.strip() removes
Whitespace == {" "}

\* the Unicode code point of a character that can be part of a specifier
CodePoint ==
    [c \in Digits \cup ConversionChars \cup {"%", "$", "l"} |->
        CASE c = "$" -> 36 [] c = "%" -> 37 [] c = "@" -> 64
          [] c = "0" -> 48 [] c = "1" -> 49 [] c = "2" -> 50 [] c = "3" -> 51
          [] c = "4" -> 52 [] c = "5" -> 53 [] c = "6" -> 54 [] c = "7" -> 55
          [] c = "8" -> 56 [] c = "9" -> 57
          [] c = "A" -> 65 [] c = "E" -> 69 [] c = "F" -> 70 [] c = "G" -> 71
          [] c = "X" -> 88
          [] c = "a" -> 97 [] c = "c" -> 99 [] c = "d" -> 100 [] c = "e" -> 101
          [] c = "f" -> 102 [] c = "g" -> 103 [] c = "i" -> 105 [] c = "l" -> 108
          [] c = "n" -> 110 [] c = "o" -> 111 [] c = "p" -> 112 [] c = "s" -> 115
          [] c = "u" -> 117 [] c = "x" -> 120]

\* f"__PLACEHOLDER_{i}__", a text of one atom
placeholder(i) == << "__PLACEHOLDER_" \o ToString(i) \o "__" >>

\* the atom at position p, "" past the end of the text
At(text, p) == IF p \in 1..Len(text) THEN text[p] ELSE ""

\* the texts over an alphabet of length at most n
RECURSIVE TextsUpTo(_, _)
TextsUpTo(alphabet, n) ==
    IF n = 0 THEN {<<>>}
    ELSE LET shorter == TextsUpTo(alphabet, n - 1)
         IN shorter \cup { Append(t, c) : t \in shorter, c \in alphabet }

\* the number of digits that follow each other from position p on
RECURSIVE digits_run(_, _)
digits_run(text, p) ==
    IF At(text, p) \in Digits THEN 1 + digits_run(text, p + 1) ELSE 0

\* the length of the match of
\*   %(?:\d+\$)?[@diouxXeEfFgGaAcspn]|%l{1,2}[diouxX]
\* that starts at position p, 0 when there is none
match_length(text, p) ==
    IF At(text, p) # "%" THEN 0
    ELSE LET n == digits_run(text, p + 1)
         IN IF n > 0 /\ At(text, p + 1 + n) = "$" /\ At(text, p + 2 + n) \in ConversionChars
            THEN n + 3
            ELSE IF At(text, p + 1) \in ConversionChars
            THEN 2
            ELSE IF /\ At(text, p + 1) = "l" /\ At(text, p + 2) = "l"
                    /\ At(text, p + 3) \in IntegerConversionChars
            THEN 4
            ELSE IF At(text, p + 1) = "l" /\ At(text, p + 2) \in IntegerConversionChars
            THEN 3
            ELSE 0

\* re.findall from position p on: the matches from left to right, the scan
\* going on behind each match
RECURSIVE findall_from(_, _)
findall_from(text, p) ==
    IF p > Len(text) THEN <<>>
    ELSE LET n == match_length(text, p)
         IN IF n > 0
            THEN <<SubSeq(text, p, p + n - 1)>> \o findall_from(text, p + n)
            ELSE findall_from(text, p + 1)

\* _extract_format_specifiers
extract_format_specifiers(text) == findall_from(text, 1)

\* str.find(old, start): the first position from start on where old stands, 0
\* when there is none
RECURSIVE find(_, _, _)
find(text, old, start) ==
    IF start + Len(old) - 1 > Len(text) THEN 0
    ELSE IF SubSeq(text, start, start + Len(old) - 1) = old THEN start
    ELSE find(text, old, start + 1)

\* str.replace(old, new, 1)
replace_first(text, old, new) ==
    LET i == find(text, old, 1)
    IN IF i = 0 THEN text
       ELSE SubSeq(text, 1, i - 1) \o new \o SubSeq(text, i + Len(old), Len(text))

\* str.replace(old, new)
RECURSIVE replace_all(_, _, _)
replace_all(text, old, new) ==
    LET i == find(text, old, 1)
    IN IF i = 0 THEN text
       ELSE SubSeq(text, 1, i - 1) \o new
               \o replace_all(SubSeq(text, i + Len(old), Len(text)), old, new)

\* str.strip()
RECURSIVE strip(_)
strip(text) ==
    IF text = <<>> THEN text
    ELSE IF Head(text) \in Whitespace THEN strip(Tail(text))
    ELSE IF text[Len(text)] \in Whitespace THEN strip(SubSeq(text, 1, Len(text) - 1))
    ELSE text

\* a < b for two specifiers as Python compares strings
RECURSIVE string_less(_, _)
string_less(a, b) ==
    IF b = <<>> THEN FALSE
    ELSE IF a = <<>> THEN TRUE
    ELSE IF Head(a) = Head(b) THEN string_less(Tail(a), Tail(b))
    ELSE CodePoint[Head(a)] < CodePoint[Head(b)]

\* sorted(specifiers)
sorted(specifiers) == SortSeq(specifiers, string_less)

----------------------------------------------------------------------------
(* TranslationGenerator: translate *)

\* protect_loop with one and the same placeholder for every specifier
RECURSIVE protect_loop_one_placeholder(_, _, _, _)
protect_loop_one_placeholder(format_specs, i, protected_text, placeholder_map) ==
    IF format_specs = <<>>
    THEN [protected_text |-> protected_text, placeholder_map |-> placeholder_map]
    ELSE LET spec == Head(format_specs)
         IN protect_loop_one_placeholder(Tail(format_specs), i,
                replace_first(protected_text, spec, placeholder(i)),
                Append(placeholder_map, [placeholder |-> placeholder(i), spec |-> spec]))

\* the loop of translate that replaces the specifiers by placeholders:
\* protected_text and placeholder_map (in insertion order) when it ends
RECURSIVE protect_loop(_, _, _, _)
protect_loop(format_specs, i, protected_text, placeholder_map) ==
    IF format_specs = <<>>
    THEN [protected_text |-> protected_text, placeholder_map |-> placeholder_map]
    ELSE LET spec == Head(format_specs)
         IN protect_loop(Tail(format_specs), i + 1,
                replace_first(protected_text, spec, placeholder(i)),
                Append(placeholder_map, [placeholder |-> placeholder(i), spec |-> spec]))

\* lines 395-404 of translate
protect(text) == protect_loop(extract_format_specifiers(text), 0, text, <<>>)

\* the loop of translate that puts the specifiers back
RECURSIVE restore_loop(_, _)
restore_loop(translated_text, placeholder_map) ==
    IF placeholder_map = <<>> THEN translated_text
    ELSE restore_loop(
             replace_all(translated_text, Head(placeholder_map).placeholder,
                         Head(placeholder_map).spec),
             Tail(placeholder_map))

\* _validate_format_specifiers comparing the lists as extracted, unsorted
validate_format_specifiers_in_order(source, translated_text) ==
    extract_format_specifiers(source) = extract_format_specifiers(translated_text)

\* _validate_format_specifiers comparing the sets of specifiers only
validate_format_specifiers_as_sets(source, translated_text) ==
    Elements(extract_format_specifiers(source)) = Elements(extract_format_specifiers(translated_text))

\* _validate_format_specifiers
validate_format_specifiers(source, translated_text) ==
    sorted(extract_format_specifiers(source))
        = sorted(extract_format_specifiers(translated_text))

\* what the external service can do; stdout counts when it exits with 0
Outcomes(outputs) ==
    { [kind |-> "exit 0", stdout |-> o] : o \in outputs }
    \cup { [kind |-> k, stdout |-> <<>>] :
              k \in {"exit 1, Error: on stderr", "exit 1", "timeout", "exception"} }

\* translate adding the language to missing_language_packs on every failure
\* of the external service
translate_every_failure_is_a_missing_pack(text, target_language, e, available, shim, packs) ==
    IF ~available \/ ~shim
    THEN [ret |-> None, restored |-> None, packs |-> packs]
    ELSE IF e.kind = "exit 0"
    THEN LET p == protect(text)
             translated_text == restore_loop(strip(e.stdout), p.placeholder_map)
         IN [ret |-> IF ~validate_format_specifiers(text, translated_text)
                     THEN None
                     ELSE Returned("text", translated_text),
             restored |-> Returned("text", translated_text),
             packs |-> packs]
    ELSE [ret |-> None, restored |-> None, packs |-> packs \cup {target_language}]

\* translate: the value returned, the restored text when there is one, and
\* missing_language_packs after the call, for outcome e of the external service
translate(text, target_language, e, available, shim, packs) ==
    IF ~available \/ ~shim
    THEN [ret |-> None, restored |-> None, packs |-> packs]
    ELSE IF e.kind = "exit 0"
    THEN LET p == protect(text)
             translated_text == restore_loop(strip(e.stdout), p.placeholder_map)
         IN [ret |-> IF ~validate_format_specifiers(text, translated_text)
                     THEN None
                     ELSE Returned("text", translated_text),
             restored |-> Returned("text", translated_text),
             packs |-> packs]
    ELSE IF e.kind = "exit 1, Error: on stderr"
    THEN [ret |-> None, restored |-> None, packs |-> packs \cup {target_language}]
    ELSE [ret |-> None, restored |-> None, packs |-> packs]

\* the invocations of the external service one translate call makes (lines
\* 407-412): none when translate returns before, else one, with the text
\* handed over and what the service did
submission(text, target_language, e, available, shim) ==
    IF ~available \/ ~shim THEN <<>>
    ELSE << [source |-> text, text |-> protect(text).protected_text,
             language |-> target_language, kind |-> e.kind] >>

\* what a translate call came to: the failure value, the empty
\* text (false for main), or a text
result_of(translated) ==
    IF translated = None THEN "failed"
    ELSE IF translated.text = <<>> THEN "empty" ELSE "text"

\* the record of one translate call: its arguments and what it returned
attempt(text, target_language, translated) ==
    [text |-> text, language |-> target_language, returned |-> translated,
     result |-> result_of(translated)]

\* the loop of batch_translate left at the first translate call that fails: es
\* being what the external service does in each; acc is what the calls so
\* far returned and left behind
RECURSIVE batch_translate_loop_stops_at_failure(_, _, _, _, _, _)
batch_translate_loop_stops_at_failure(text, target_languages, es, available, shim, acc) ==
    IF target_languages = <<>> \/ (acc.attempted # <<>>
                                   /\ acc.attempted[Len(acc.attempted)].result = "failed")
    THEN acc
    ELSE LET target_lang == Head(target_languages)
             r == translate(text, target_lang, Head(es), available, shim, acc.packs)
         IN batch_translate_loop_stops_at_failure(text, Tail(target_languages), Tail(es), available, shim,
                [translations |->
                     IF r.ret # None
                     THEN [l \in DOMAIN acc.translations \cup {target_lang} |->
                              IF l = target_lang THEN r.ret.text ELSE acc.translations[l]]
                     ELSE acc.translations,
                 packs |-> r.packs,
                 restored |-> r.restored,
                 submitted |-> acc.submitted
                                 \o submission(text, target_lang, Head(es), available, shim),
                 attempted |-> Append(acc.attempted, attempt(text, target_lang, r.ret))])

\* the loop of batch_translate: one translate call for each language, es
\* being what the external service does in each; acc is what the calls so
\* far returned and left behind
RECURSIVE batch_translate_loop(_, _, _, _, _, _)
batch_translate_loop(text, target_languages, es, available, shim, acc) ==
    IF target_languages = <<>> THEN acc
    ELSE LET target_lang == Head(target_languages)
             r == translate(text, target_lang, Head(es), available, shim, acc.packs)
         IN batch_translate_loop(text, Tail(target_languages), Tail(es), available, shim,
                [translations |->
                     IF r.ret # None
                     THEN [l \in DOMAIN acc.translations \cup {target_lang} |->
                              IF l = target_lang THEN r.ret.text ELSE acc.translations[l]]
                     ELSE acc.translations,
                 packs |-> r.packs,
                 restored |-> r.restored,
                 submitted |-> acc.submitted
                                 \o submission(text, target_lang, Head(es), available, shim),
                 attempted |-> Append(acc.attempted, attempt(text, target_lang, r.ret))])

\* batch_translate
batch_translate(text, target_languages, es, available, shim, packs) ==
    LET acc == [translations |-> <<>>, packs |-> packs, restored |-> None,
                submitted |-> <<>>, attempted |-> <<>>]
    IN IF ~available THEN acc
       ELSE batch_translate_loop(text, target_languages, es, available, shim, acc)

----------------------------------------------------------------------------
(* The calls a client can make, in any order *)

Call(op, key, language, text) == [op |-> op, key |-> key, language |-> language, text |-> text]

\* the state after the documents are loaded and the detector, the inserter
\* and the tracker are constructed over them
InitWith(catalogs, lists, docs) ==
    /\ \E s \in catalogs :
          /\ localizable_data = [sourceLanguage |-> "en", strings |-> s, version |-> "1.0"]
          /\ loaded_strings = s
    /\ supported_languages \in lists
    /\ keys_data \in docs
    /\ translations_inserted = 0
    /\ new_keys = <<>>
    /\ last = Call("init", "", "", "")
    /\ ret = None

\* the state of a TranslationGenerator after construction, and the text to
\* translate
InitGenerator(texts, available, shims) ==
    /\ source_text \in texts
    /\ framework_available \in available
    /\ shim_exists \in shims
    /\ missing_language_packs = {}
    /\ ext = None
    /\ restored = None
    /\ submitted = <<>>

\* no run of main: the classes are used on their own
NoRun ==
    /\ pc = "no run"
    /\ args = [verbose |-> FALSE, dry_run |-> FALSE]
    /\ files = <<>>
    /\ exit_status = "running"
    /\ main_missing_translations = None
    /\ todo = <<>>
    /\ statistics = None
    /\ written = {}
    /\ reached = {}
    /\ attempted = <<>>

FindMissing ==
    /\ ret' = Returned("gaps",
                 find_missing_translations(localizable_data, supported_languages, keys_data))
    /\ last' = Call("find_missing_translations", "", "", "")
    /\ UNCHANGED <<runVars, localizable_data, supported_languages, keys_data,
                   translations_inserted, new_keys, loaded_strings, genVars>>

Insert(key, language, text) ==
    LET r == insert_translation(localizable_data, translations_inserted, key, language, text)
    IN /\ r.inserted <= MaxInserts
       /\ localizable_data' = r.data
       /\ translations_inserted' = r.inserted
       /\ last' = Call("insert_translation", key, language, text)
       /\ ret' = None
       /\ UNCHANGED <<runVars, supported_languages, keys_data, new_keys, loaded_strings, genVars>>

\* find_new_keys putting the new keys into the catalog
FindNewKeys_adds_keys ==
    /\ keys_data # None
    /\ new_keys' = find_new_keys(localizable_data, keys_data)
    /\ localizable_data' =
          [localizable_data EXCEPT !.strings =
              [k \in DOMAIN localizable_data.strings \cup Elements(new_keys') |->
                  Get(localizable_data.strings, k, <<>>)]]
    /\ ret' = Returned("new_keys", new_keys')
    /\ last' = Call("find_new_keys", "", "", "")
    /\ UNCHANGED <<runVars, supported_languages, keys_data,
                   translations_inserted, loaded_strings, genVars>>

FindNewKeys ==
    /\ keys_data # None
    /\ new_keys' = find_new_keys(localizable_data, keys_data)
    /\ ret' = Returned("new_keys", new_keys')
    /\ last' = Call("find_new_keys", "", "", "")
    /\ UNCHANGED <<runVars, localizable_data, supported_languages, keys_data,
                   translations_inserted, loaded_strings, genVars>>

CreateToLocalize ==
    /\ keys_data # None
    /\ ret' = Returned("to_localize", create_to_localize_structure(new_keys))
    /\ last' = Call("create_to_localize_structure", "", "", "")
    /\ UNCHANGED <<runVars, localizable_data, supported_languages, keys_data,
                   translations_inserted, new_keys, loaded_strings, genVars>>

----------------------------------------------------------------------------
(* The gap detector alone, over every catalog, language list and tracked-key
   document of the bounded sets *)

InitDetect ==
    /\ InitWith(Catalogs, LangLists, KeysDocs)
    /\ InitGenerator({<<>>}, {FALSE}, {FALSE})
    /\ NoRun

NextDetect == FindMissing

SpecDetect == InitDetect /\ [][NextDetect]_vars

----------------------------------------------------------------------------
(* Detector, inserter and tracker over one shared catalog, called in any order *)

\* the catalogs of this specification: "Save" and "Open" hold any record,
\* the empty key, when present, holds no localizations
ApiCatalogs == { s \in Catalogs : "" \in DOMAIN s => s[""] = <<>> }

ApiLangLists == { <<"en", "fr">>, <<"fr">> }

\* no document, every key tracked, or "Save" marked skip and "Open" untracked
ApiKeysDocs ==
    { None,
      [strings |-> [k \in Keys |-> <<>>]],
      [strings |-> [k \in {"", "Save"} |->
                       IF k = "Save" THEN [skip_localization |-> TRUE] ELSE <<>>]] }

Init ==
    /\ InitWith(ApiCatalogs, ApiLangLists, ApiKeysDocs)
    /\ InitGenerator({<<>>}, {FALSE}, {FALSE})
    /\ NoRun

Next ==
    \/ FindMissing
    \/ \E key \in Keys, language \in LangCodes, text \in Texts : Insert(key, language, text)
    \/ FindNewKeys
    \/ CreateToLocalize

Spec == Init /\ [][Next]_vars

----------------------------------------------------------------------------
(* translate called once on a text, the external service free to print any
   output or to fail *)

\* the catalog key whose text is source_text
TrKey == "Save"

\* if translated: (None and the empty text are false)
TruthyText(r) == r # None /\ r.text # <<>>

Translate(target_language, e) ==
    LET r == translate(source_text, target_language, e,
                       framework_available, shim_exists, missing_language_packs)
    IN /\ last.op = "init"
       /\ ret' = r.ret
       /\ restored' = r.restored
       /\ missing_language_packs' = r.packs
       /\ ext' = e
       /\ submitted' = submitted \o submission(source_text, target_language, e,
                                                framework_available, shim_exists)
       /\ last' = Call("translate", "", target_language, "")
       /\ UNCHANGED <<runVars, apiVars, source_text, framework_available, shim_exists>>

\* lines 916-918 of main: translate the key, insert the translation if any
TranslateAndInsert(target_language, e) ==
    LET r == translate(source_text, target_language, e,
                       framework_available, shim_exists, missing_language_packs)
        i == IF TruthyText(r.ret)
             THEN insert_translation(localizable_data, translations_inserted,
                                     TrKey, target_language, r.ret.text)
             ELSE [data |-> localizable_data, inserted |-> translations_inserted]
    IN /\ last.op = "init"
       /\ ret' = r.ret
       /\ restored' = r.restored
       /\ missing_language_packs' = r.packs
       /\ ext' = e
       /\ submitted' = submitted \o submission(source_text, target_language, e,
                                                framework_available, shim_exists)
       /\ localizable_data' = i.data
       /\ translations_inserted' = i.inserted
       /\ last' = Call("translate, insert_translation", TrKey, target_language, "")
       /\ UNCHANGED <<runVars, supported_languages, keys_data, new_keys, loaded_strings,
                      source_text, framework_available, shim_exists>>

SourceAlphabet == {"%", "d", "z", "__PLACEHOLDER_0__"}

OutputAlphabet == {"%", "d", "z", " ", "__PLACEHOLDER_0__", "__PLACEHOLDER_1__"}

InitTranslate ==
    /\ InitWith({ (TrKey :> <<>>) }, { <<"fr", "en">> }, { None })
    /\ InitGenerator(TextsUpTo(SourceAlphabet, MaxSrc), BOOLEAN, BOOLEAN)
    /\ NoRun

NextTranslate ==
    \E target_language \in LangCodes, e \in Outcomes(TextsUpTo(OutputAlphabet, MaxOut)) :
        \/ Translate(target_language, e)
        \/ TranslateAndInsert(target_language, e)

SpecTranslate == InitTranslate /\ [][NextTranslate]_vars

----------------------------------------------------------------------------
(* translate and batch_translate called any number of times on any text,
   between calls of detector, inserter and tracker *)

TranslateCall(text, target_language, e) ==
    LET r == translate(text, target_language, e,
                       framework_available, shim_exists, missing_language_packs)
        s == submission(text, target_language, e, framework_available, shim_exists)
    IN /\ framework_available /\ shim_exists => Len(submitted) < MaxCalls
       /\ source_text' = text
       /\ ret' = r.ret
       /\ restored' = r.restored
       /\ missing_language_packs' = r.packs
       /\ ext' = e
       /\ submitted' = submitted \o s
       /\ attempted' = << attempt(text, target_language, r.ret) >>
       /\ last' = Call("translate", "", target_language, text)
       /\ UNCHANGED <<apiVars, framework_available, shim_exists, pc, args, files,
                      exit_status, main_missing_translations, todo, statistics, written,
                      reached>>

BatchTranslate(text, target_languages, es) ==
    LET r == batch_translate(text, target_languages, es,
                             framework_available, shim_exists, missing_language_packs)
    IN /\ framework_available /\ shim_exists
            => Len(submitted) + Len(target_languages) <= MaxCalls
       /\ source_text' = text
       /\ ret' = Returned("translations", r.translations)
       /\ restored' = r.restored
       /\ missing_language_packs' = r.packs
       /\ ext' = IF es = <<>> THEN None ELSE es[Len(es)]
       /\ submitted' = submitted \o r.submitted
       /\ attempted' = r.attempted
       /\ last' = Call("batch_translate", "", target_languages, text)
       /\ UNCHANGED <<apiVars, framework_available, shim_exists, pc, args, files,
                      exit_status, main_missing_translations, todo, statistics, written,
                      reached>>

CallTexts == { <<"z">>, <<"%", "d">> }

CallOutputs == { <<"z">>, <<"__PLACEHOLDER_0__">> }

CallLangLists == { <<"fr">>, <<"en", "fr">> }

CallCatalogs ==
    { ("Save" :> <<>>),
      ("Save" :> [localizations |-> [l \in {"en"} |-> LoadedEntry]] @@ "Open" :> <<>>) }

InitCalls ==
    /\ InitWith(CallCatalogs, { <<"en", "fr">> }, { [strings |-> [k \in {"Open"} |-> <<>>]] })
    /\ InitGenerator({<<>>}, BOOLEAN, BOOLEAN)
    /\ NoRun

NextCalls ==
    \/ \E text \in CallTexts, target_language \in LangCodes, e \in Outcomes(CallOutputs) :
          TranslateCall(text, target_language, e)
    \/ \E text \in CallTexts, target_languages \in CallLangLists :
          \E es \in [1..Len(target_languages) -> Outcomes(CallOutputs)] :
              BatchTranslate(text, target_languages, es)
    \/ FindMissing
    \/ \E language \in LangCodes : Insert("Save", language, "t1")
    \/ FindNewKeys
    \/ CreateToLocalize

SpecCalls == InitCalls /\ [][NextCalls]_vars

----------------------------------------------------------------------------
(* main: one run of the tool *)

\* how many keys, and how many languages of each, main translates ([:3])
SampleSize == 3

\* what main can find in the place of an input document
FileStates == {"ok", "missing", "malformed", "unreadable"}

required_fields == {"sourceLanguage", "strings", "version"}

\* _load_json_file returns the document (else it raises)
load_json_file(state) == state = "ok"

\* validate_localizable_structure returns True (else it raises)
validate_localizable_structure(fields) == required_fields \ fields = {}

\* lines 796-801 of main with a catalog accepted whatever its fields
loading_succeeds_without_validation(f) ==
    /\ load_json_file(f.localizable)
    /\ load_json_file(f.languages)
    /\ load_json_file(f.keys)

\* lines 796-801 of main run through without an exception
loading_succeeds(f) ==
    /\ load_json_file(f.localizable)
    /\ load_json_file(f.languages)
    /\ load_json_file(f.keys)
    /\ validate_localizable_structure(f.fields)

\* list[:n]
FirstOf(list, n) == SubSeq(list, 1, IF Len(list) < n THEN Len(list) ELSE n)

\* the source text a catalog key of the model stands for
TextOf(key) ==
    IF key = "Open" THEN <<"O", "p", "e", "n", " ", "%", "@">> ELSE <<"S", "a", "v", "e">>

\* the (key, language) pairs of the two loops of main, in order, when only
\* the first two languages of a key are taken
RECURSIVE sample_pairs_two_languages(_, _)
sample_pairs_two_languages(sample_keys, mt) ==
    IF sample_keys = <<>> THEN <<>>
    ELSE LET key == Head(sample_keys)
             sample_langs == FirstOf(mt[key], 2)
         IN [i \in 1..Len(sample_langs) |-> <<key, sample_langs[i]>>]
                \o sample_pairs_two_languages(Tail(sample_keys), mt)

\* the (key, language) pairs of the two loops of main, in order: the first
\* three languages of each of sample_keys
RECURSIVE sample_pairs(_, _)
sample_pairs(sample_keys, mt) ==
    IF sample_keys = <<>> THEN <<>>
    ELSE LET key == Head(sample_keys)
             sample_langs == FirstOf(mt[key], SampleSize)
         IN [i \in 1..Len(sample_langs) |-> <<key, sample_langs[i]>>]
                \o sample_pairs(Tail(sample_keys), mt)

\* list(missing_translations.items())[:3]
sample_keys_of(mt) == FirstOf(Members(mt), SampleSize)

\* what the external service does with a text in a run: it prints the text
\* it was given, nothing, or (for a text with specifiers) a text without
\* them; or its language pack is missing; or it runs out of time
MainOutcomes(text) ==
    { e \in Outcomes({protect(text).protected_text, <<>>}
                     \cup (IF extract_format_specifiers(text) = <<>> THEN {} ELSE {<<"z">>})) :
        e.kind \in {"exit 0", "exit 1, Error: on stderr", "timeout"} }

\* the pairs left to a loop that ends at the first translation that fails
pairs_left_stopping_at_failure(pairs, translated) ==
    IF translated = None THEN <<>> ELSE Tail(pairs)

\* the pairs a loop of main has left after a round (neither loop has a
\* break, and translate does not raise), whatever translate returned
pairs_left(pairs, translated) == Tail(pairs)

\* lines 796-801: the three documents are loaded and the catalog validated
Load ==
    /\ pc = "load"
    /\ IF loading_succeeds(files)
       THEN pc' = "detect" /\ exit_status' = exit_status
       ELSE pc' = "done" /\ exit_status' = "1"
    /\ UNCHANGED <<apiVars, last, ret, genVars, args, files, main_missing_translations,
                   todo, statistics, written, reached, attempted>>

\* lines 816-818
Detect ==
    /\ pc = "detect"
    /\ main_missing_translations' =
          find_missing_translations(localizable_data, supported_languages, keys_data)
    /\ reached' = reached \cup {"detection"}
    /\ pc' = "generator"
    /\ UNCHANGED <<apiVars, last, ret, genVars, args, files, exit_status, todo, statistics,
                   written, attempted>>

\* line 834, TranslationGenerator.__init__: swiftc says whether the
\* compiler answers, compiles whether compiling the shim gives the shim file;
\* then lines 844-850 or, with nothing to translate, on to the summary
CreateGenerator(swiftc, compiles) ==
    LET compile == swiftc /\ ~shim_exists
        available == swiftc /\ (compile => compiles)
        translating == Truthy(main_missing_translations) /\ available
    IN /\ pc = "generator"
       /\ framework_available' = available
       /\ shim_exists' = (shim_exists \/ (compile /\ compiles))
       /\ written' = IF compile /\ compiles THEN written \cup {"mac-translate"} ELSE written
       /\ pc' = IF translating THEN "sample" ELSE "summary"
       /\ todo' = IF translating
                  THEN sample_pairs(sample_keys_of(main_missing_translations),
                                    main_missing_translations)
                  ELSE <<>>
       /\ statistics' = IF translating THEN [generated |-> 0, skipped |-> 0] ELSE statistics
       /\ UNCHANGED <<apiVars, last, ret, source_text, missing_language_packs, ext, restored,
                      submitted, args, files, exit_status, main_missing_translations,
                      reached, attempted>>

\* one round of the loop of lines 863-875
SampleTranslate(e) ==
    LET key == todo[1][1]
        lang == todo[1][2]
        r == translate(TextOf(key), lang, e, framework_available, shim_exists,
                       missing_language_packs)
    IN /\ pc = "sample"
       /\ e \in MainOutcomes(TextOf(key))
       /\ source_text' = TextOf(key)
       /\ ret' = r.ret
       /\ restored' = r.restored
       /\ missing_language_packs' = r.packs
       /\ ext' = e
       /\ submitted' = submitted \o submission(TextOf(key), lang, e,
                                                framework_available, shim_exists)
       /\ statistics' = IF TruthyText(r.ret)
                        THEN [statistics EXCEPT !.generated = @ + 1]
                        ELSE [statistics EXCEPT !.skipped = @ + 1]
       /\ attempted' = Append(attempted, [key |-> key, language |-> lang,
                                          result |-> result_of(r.ret)])
       /\ reached' = reached \cup {"translation"}
       /\ last' = Call("translate", key, lang, "")
       /\ IF pairs_left(todo, r.ret) # <<>>
          THEN pc' = pc /\ todo' = pairs_left(todo, r.ret)
          ELSE /\ pc' = "insert"
               /\ todo' = sample_pairs(sample_keys_of(main_missing_translations),
                                       main_missing_translations)
       /\ UNCHANGED <<apiVars, framework_available, shim_exists, args, files, exit_status,
                      main_missing_translations, written>>

\* one round of the loop of lines 915-918
InsertTranslate(e) ==
    LET key == todo[1][1]
        lang == todo[1][2]
        r == translate(TextOf(key), lang, e, framework_available, shim_exists,
                       missing_language_packs)
        i == IF TruthyText(r.ret)
             THEN insert_translation(localizable_data, translations_inserted,
                                     key, lang, r.ret.text)
             ELSE [data |-> localizable_data, inserted |-> translations_inserted]
    IN /\ pc = "insert"
       /\ e \in MainOutcomes(TextOf(key))
       /\ source_text' = TextOf(key)
       /\ ret' = r.ret
       /\ restored' = r.restored
       /\ missing_language_packs' = r.packs
       /\ ext' = e
       /\ submitted' = submitted \o submission(TextOf(key), lang, e,
                                                framework_available, shim_exists)
       /\ localizable_data' = i.data
       /\ translations_inserted' = i.inserted
       /\ attempted' = Append(attempted, [key |-> key, language |-> lang,
                                          result |-> result_of(r.ret)])
       /\ reached' = reached \cup (IF TruthyText(r.ret)
                                   THEN {"translation", "insertion"}
                                   ELSE {"translation"})
       /\ last' = Call("translate, insert_translation", key, lang, "")
       /\ todo' = pairs_left(todo, r.ret)
       /\ pc' = IF todo' # <<>> THEN pc ELSE "summary"
       /\ UNCHANGED <<supported_languages, keys_data, new_keys, loaded_strings,
                      framework_available, shim_exists, args, files, exit_status,
                      main_missing_translations, statistics, written>>

\* lines 969-978: the final summary reads translations_generated, which is
\* unbound when the block of lines 844-887 was not run
Summary ==
    /\ pc = "summary"
    /\ IF ~args.verbose /\ framework_available /\ statistics = None
       THEN pc' = "done" /\ exit_status' = "1"
       ELSE pc' = "track" /\ exit_status' = exit_status
    /\ UNCHANGED <<apiVars, last, ret, genVars, args, files, main_missing_translations,
                   todo, statistics, written, reached, attempted>>

\* lines 982-1042: the tracker, and return 0
Track ==
    /\ pc = "track"
    /\ new_keys' = find_new_keys(localizable_data, keys_data)
    /\ ret' = Returned("to_localize", create_to_localize_structure(new_keys'))
    /\ last' = Call("create_to_localize_structure", "", "", "")
    /\ reached' = reached \cup {"tracking"}
    /\ exit_status' = "0"
    /\ pc' = "done"
    /\ UNCHANGED <<localizable_data, supported_languages, keys_data, translations_inserted,
                   loaded_strings, genVars, args, files, main_missing_translations, todo,
                   statistics, written, attempted>>

\* the documents of a run: a fully translated catalog; a key without any
\* translation and four languages; two keys, one with a specifier
MainInputs ==
    { [strings |-> ("Save" :> [localizations |-> [l \in {"en", "fr"} |-> LoadedEntry]]),
       languages |-> <<"en", "fr">>,
       keys |-> [strings |-> [k \in {"Save"} |-> <<>>]]],
      [strings |-> ("Save" :> <<>>),
       languages |-> <<"en", "fr", "de", "es">>,
       keys |-> [strings |-> [k \in {"Save", "Open"} |-> <<>>]]],
      [strings |-> ("Save" :> [localizations |-> [l \in {"en"} |-> LoadedEntry]]
                    @@ "Open" :> <<>>),
       languages |-> <<"en", "fr">>,
       keys |-> <<>>] }

\* the documents are there and good, or any of them is not
MainFiles ==
    { f \in [localizable : FileStates, languages : FileStates, keys : FileStates,
             fields : SUBSET required_fields] :
         f.localizable # "ok" => f.fields = {} }

InitMain ==
    /\ files \in MainFiles
    /\ \E input \in MainInputs :
          /\ ~loading_succeeds(files) => input.languages = <<"en", "fr", "de", "es">>
          /\ InitWith({input.strings}, {input.languages}, {input.keys})
    /\ InitGenerator({<<>>}, {FALSE}, BOOLEAN)
    /\ pc = "load"
    /\ args \in [verbose : BOOLEAN, dry_run : BOOLEAN]
    /\ exit_status = "running"
    /\ main_missing_translations = None
    /\ todo = <<>>
    /\ statistics = None
    /\ written = {}
    /\ reached = {}
    /\ attempted = <<>>

NextMain ==
    \/ Load
    \/ Detect
    \/ \E swiftc \in BOOLEAN, compiles \in BOOLEAN : CreateGenerator(swiftc, compiles)
    \/ \E e \in MainOutcomes(TextOf("Save")) \cup MainOutcomes(TextOf("Open")) :
          \/ SampleTranslate(e)
          \/ InsertTranslate(e)
    \/ Summary
    \/ Track

SpecMain == InitMain /\ [][NextMain]_vars

----------------------------------------------------------------------------
(* _validate_format_specifiers called once on a source text and a translated
   text *)

\* specifiers and other characters texts are put together from
Pieces ==
    { <<"%", "1", "$", "@">>, <<"%", "2", "$", "@">>, <<"%", "d">>, <<"z">>, <<" ">> }

\* the texts put together from at most n pieces
RECURSIVE TextsOfPieces(_)
TextsOfPieces(n) ==
    IF n = 0 THEN {<<>>}
    ELSE LET shorter == TextsOfPieces(n - 1)
         IN shorter \cup { t \o piece : t \in shorter, piece \in Pieces }

Validate(translated_text) ==
    /\ last.op = "init"
    /\ ret' = Returned("valid", validate_format_specifiers(source_text, translated_text))
    /\ restored' = Returned("text", translated_text)
    /\ last' = Call("_validate_format_specifiers", "", "", "")
    /\ UNCHANGED <<runVars, apiVars, source_text, framework_available, shim_exists,
                   missing_language_packs, ext, submitted>>

InitValidate ==
    /\ InitWith({ (TrKey :> <<>>) }, { <<"fr", "en">> }, { None })
    /\ InitGenerator(TextsOfPieces(MaxPieces), {TRUE}, {TRUE})
    /\ NoRun

NextValidate == \E translated_text \in TextsOfPieces(MaxPieces) : Validate(translated_text)

SpecValidate == InitValidate /\ [][NextValidate]_vars

----------------------------------------------------------------------------
(* translate called once on a text, the external service printing the text
   it was given *)

TranslateEcho(target_language) ==
    Translate(target_language,
              [kind |-> "exit 0", stdout |-> protect(source_text).protected_text])

RoundTripAlphabet ==
    {"%", "1", "$", "d", "l", "@", "z", " ", "__PLACEHOLDER_0__", "__PLACEHOLDER_1__"}

InitRoundTrip ==
    /\ InitWith({ (TrKey :> <<>>) }, { <<"fr", "en">> }, { None })
    /\ InitGenerator(TextsUpTo(RoundTripAlphabet, MaxLen), {TRUE}, {TRUE})
    /\ NoRun

NextRoundTrip == \E target_language \in LangCodes : TranslateEcho(target_language)

SpecRoundTrip == InitRoundTrip /\ [][NextRoundTrip]_vars

----------------------------------------------------------------------------
(* tools/translate_website.py: translate_text and translate_dict, called in
   any order on the texts and documents below.  A JSON value is a record
   that carries its Python type: a str with its text, a dict with its
   entries, a list with its elements, an int with its number. *)

Str(text) == [type |-> "str", text |-> text]
Dict(entries) == [type |-> "dict", entries |-> entries]
List(elements) == [type |-> "list", elements |-> elements]
Number(n) == [type |-> "int", number |-> n]

\* the order of the members in the source document (data.items())
WebKeyOrder == <<"title", "nav", "home", "tags", "count">>

items(entries) == SelectSeq(WebKeyOrder, LAMBDA key : key \in DOMAIN entries)

\* translate_text returning the stripped output also when it is empty
translate_text_returns_empty_output(text, target_lang, e) ==
    IF target_lang = "en" THEN [ret |-> text, calls |-> <<>>]
    ELSE [ret |-> IF e.kind = "exit 0" THEN strip(e.stdout) ELSE text,
          calls |-> << [source |-> "en", language |-> target_lang, text |-> text,
                        kind |-> e.kind] >>]

\* translate_text, e being what the swift bridge does when it is run: ret is
\* the text returned, calls the runs of the bridge
translate_text(text, target_lang, e) ==
    IF target_lang = "en" THEN [ret |-> text, calls |-> <<>>]
    ELSE [ret |-> IF e.kind = "exit 0"
                  THEN LET translated == strip(e.stdout)
                       IN IF translated # <<>> THEN translated ELSE text
                  ELSE text,
          calls |-> << [source |-> "en", language |-> target_lang, text |-> text,
                        kind |-> e.kind] >>]

\* current_path
current_path(path, key) == IF path # "" THEN path \o "." \o key ELSE key

\* translate_dict, service giving what the swift bridge does for the string
\* met at each path: ret is the value returned, calls the runs of the bridge
\* in order.  translate_items is its loop over data.items().
RECURSIVE translate_dict(_, _, _, _)
RECURSIVE translate_items(_, _, _, _, _, _)
translate_items(entries, keys, target_lang, path, service, result) ==
    IF keys = <<>> THEN result
    ELSE LET key == Head(keys)
             r == translate_dict(entries[key], target_lang, current_path(path, key), service)
         IN translate_items(entries, Tail(keys), target_lang, path, service,
                [ret |-> [k \in DOMAIN result.ret \cup {key} |->
                             IF k = key THEN r.ret ELSE result.ret[k]],
                 calls |-> result.calls \o r.calls])

translate_dict(data, target_lang, path, service) ==
    IF data.type = "dict"
    THEN LET r == translate_items(data.entries, items(data.entries), target_lang, path,
                                  service, [ret |-> <<>>, calls |-> <<>>])
         IN [ret |-> Dict(r.ret), calls |-> r.calls]
    ELSE IF data.type = "str"
    THEN LET r == translate_text(data.text, target_lang, service[path])
         IN [ret |-> Str(r.ret), calls |-> r.calls]
    ELSE [ret |-> data, calls |-> <<>>]

\* the paths at which translate_dict meets a string
RECURSIVE string_paths(_, _)
string_paths(data, path) ==
    IF data.type = "dict"
    THEN UNION { string_paths(data.entries[key], current_path(path, key)) :
                    key \in DOMAIN data.entries }
    ELSE IF data.type = "str" THEN {path}
    ELSE {}

TranslateText(text, target_lang, e) ==
    LET r == translate_text(text, target_lang, e)
    IN /\ source_text' = text
       /\ ext' = e
       /\ ret' = Returned("text", r.ret)
       /\ submitted' = r.calls
       /\ last' = Call("translate_text", "", target_lang, text)
       /\ UNCHANGED <<apiVars, runVars, framework_available, shim_exists,
                      missing_language_packs, restored>>

TranslateDict(data, target_lang, service) ==
    LET r == translate_dict(data, target_lang, "", service)
    IN /\ source_text' = data
       /\ ext' = service
       /\ ret' = Returned("data", r.ret)
       /\ submitted' = r.calls
       /\ last' = Call("translate_dict", "", target_lang, "")
       /\ UNCHANGED <<apiVars, runVars, framework_available, shim_exists,
                      missing_language_packs, restored>>

WebTexts == { <<"a">>, <<"a", " ">>, <<>> }

WebOutcomes == Outcomes({ <<"b">>, <<" ", "b", " ">>, <<" ">>, <<>> })

WebData ==
    { Str(<<"a">>),
      Dict(<<>>),
      Dict("title" :> Str(<<"a">>) @@ "nav" :> Dict("home" :> Str(<<"a", " ">>))),
      Dict("title" :> Str(<<"a">>) @@ "count" :> Number(1)),
      Dict("title" :> Str(<<"a">>) @@ "tags" :> List(<< Str(<<"a">>), Number(1) >>)),
      List(<< Dict("title" :> Str(<<"a">>)) >>) }

InitWebsite ==
    /\ InitWith({ ("Save" :> <<>>) }, { <<"en", "fr">> }, { None })
    /\ InitGenerator({<<>>}, {FALSE}, {FALSE})
    /\ NoRun

NextWebsite ==
    \/ \E text \in WebTexts, target_lang \in LangCodes, e \in WebOutcomes :
          TranslateText(text, target_lang, e)
    \/ \E data \in WebData, target_lang \in LangCodes :
          \E service \in [string_paths(data, "") -> WebOutcomes] :
              TranslateDict(data, target_lang, service)

SpecWebsite == InitWebsite /\ [][NextWebsite]_vars

----------------------------------------------------------------------------
(* Notions the properties are stated with *)

\* the translations the catalog holds for key k (none when k has no
\* localizations member)
LocalizationsOf(strings, k) ==
    IF "localizations" \in DOMAIN strings[k] THEN strings[k].localizations ELSE <<>>

\* key k carries a true skip_localization flag in the tracked-key document
SkipFlagged(k) ==
    /\ keys_data # None
    /\ "strings" \in DOMAIN keys_data
    /\ k \in DOMAIN keys_data.strings
    /\ "skip_localization" \in DOMAIN keys_data.strings[k]
    /\ keys_data.strings[k].skip_localization = TRUE

\* key k has an entry in the tracked-key document
Tracked(k) ==
    /\ keys_data # None
    /\ "strings" \in DOMAIN keys_data
    /\ k \in DOMAIN keys_data.strings

\* the positions of list L whose language has no translation in loc
MissingAt(L, loc) == { i \in 1..Len(L) : L[i] \notin DOMAIN loc }

\* list m is list L cut down to the positions of I, in the order of L
IsRestriction(m, L, I) ==
    /\ Len(m) = Cardinality(I)
    /\ \A j \in 1..Len(m) :
          \E i \in I : Cardinality({ h \in I : h <= i }) = j /\ m[j] = L[i]

\* the (key, language) pairs that have a translation entry
EntriesOf(strings) ==
    { <<k, l>> \in (DOMAIN strings) \X LangCodes : l \in DOMAIN LocalizationsOf(strings, k) }

\* the tracked keys that are absent from the catalog or have no translation
NewNow ==
    { k \in Keys : /\ Tracked(k)
                   /\ \/ k \notin DOMAIN localizable_data.strings
                      \/ DOMAIN LocalizationsOf(localizable_data.strings, k) = {} }

----------------------------------------------------------------------------
(* The gap detector *)

\* C1: for every key of the catalog that is not the empty string and not
\* skip-flagged, the list find_missing_translations reports is the language
\* list cut down to the languages the key has no entry for, in the order of
\* the language list, and the key is in the report exactly when that list is
\* not empty
C1_GapReportIsOrderedDifference ==
    last.op = "find_missing_translations" =>
        LET strings == localizable_data.strings
        IN \A k \in DOMAIN strings :
              (k # "" /\ ~SkipFlagged(k)) =>
                  LET I == MissingAt(supported_languages, LocalizationsOf(strings, k))
                  IN /\ (k \in DOMAIN ret.gaps) <=> (I # {})
                     /\ k \in DOMAIN ret.gaps =>
                            IsRestriction(ret.gaps[k], supported_languages, I)

\* a report that lists two different languages for a key, in the order of the
\* language list, and leaves out a key that has every language
C1_Witness ==
    /\ last.op = "find_missing_translations"
    /\ Len(supported_languages) = 2
    /\ supported_languages[1] # supported_languages[2]
    /\ \E k \in DOMAIN ret.gaps : ret.gaps[k] = supported_languages
    /\ \E k \in DOMAIN localizable_data.strings :
          /\ k # "" /\ ~SkipFlagged(k) /\ k \notin DOMAIN ret.gaps
          /\ Elements(supported_languages)
                 \subseteq DOMAIN LocalizationsOf(localizable_data.strings, k)

\* C2: the empty key and every skip-flagged key are never in the gap report;
\* a key without tracked-key entry, or any key when there is no tracked-key
\* document, is reported as soon as it lacks a language
C2_SkippedKeysNeverReported ==
    last.op = "find_missing_translations" =>
        LET strings == localizable_data.strings
        IN /\ "" \notin DOMAIN ret.gaps
           /\ \A k \in DOMAIN strings : SkipFlagged(k) => k \notin DOMAIN ret.gaps
           /\ \A k \in DOMAIN strings :
                 ( /\ k # ""
                   /\ ~Tracked(k)
                   /\ MissingAt(supported_languages, LocalizationsOf(strings, k)) # {} )
                 => k \in DOMAIN ret.gaps

\* a catalog with a skip-flagged key and an empty key that both lack a
\* language, neither reported, and an untracked key that is reported
C2_Witness ==
    /\ last.op = "find_missing_translations"
    /\ LET strings == localizable_data.strings
       IN /\ \E k \in DOMAIN strings :
                /\ SkipFlagged(k)
                /\ MissingAt(supported_languages, LocalizationsOf(strings, k)) # {}
                /\ k \notin DOMAIN ret.gaps
          /\ "" \in DOMAIN strings
          /\ MissingAt(supported_languages, LocalizationsOf(strings, "")) # {}
          /\ \E k \in DOMAIN strings : ~Tracked(k) /\ k \in DOMAIN ret.gaps

\* C21 as stated: every key of the gap report is a key of the tracked-key
\* document's strings mapping
C21_ReportedKeysAreTracked ==
    last.op = "find_missing_translations" => \A k \in DOMAIN ret.gaps : Tracked(k)

\* C21 amended: the gaps are computed per key of the catalog: the keys of the
\* gap report are the keys of the catalog's strings mapping that are not the
\* empty string, are not skip-flagged by the tracked-key document and lack a
\* supported language, whether the tracked-key document holds them or not
C21_ReportedKeysAreCatalogKeys ==
    last.op = "find_missing_translations" =>
        DOMAIN ret.gaps =
            { k \in DOMAIN localizable_data.strings :
                /\ k # ""
                /\ ~SkipFlagged(k)
                /\ MissingAt(supported_languages,
                             LocalizationsOf(localizable_data.strings, k)) # {} }

\* a report with a key the tracked-key document holds and a key it does not
C21_Witness ==
    /\ last.op = "find_missing_translations"
    /\ \E k1, k2 \in DOMAIN ret.gaps : Tracked(k1) /\ ~Tracked(k2)
    /\ keys_data # None

----------------------------------------------------------------------------
(* The inserter *)

\* C3: an entry the catalog holds for a (key, language) pair, loaded or
\* inserted, is the same entry after every step
C3_NeverOverwrite ==
    [][ \A k \in DOMAIN localizable_data.strings :
           \A l \in DOMAIN LocalizationsOf(localizable_data.strings, k) :
              /\ k \in DOMAIN localizable_data'.strings
              /\ l \in DOMAIN LocalizationsOf(localizable_data'.strings, k)
              /\ LocalizationsOf(localizable_data'.strings, k)[l]
                    = LocalizationsOf(localizable_data.strings, k)[l] ]_vars

\* insert_translation was called for a pair whose entry holds another text
C3_Witness ==
    /\ last.op = "insert_translation"
    /\ last.key \in DOMAIN localizable_data.strings
    /\ last.language \in DOMAIN LocalizationsOf(localizable_data.strings, last.key)
    /\ LocalizationsOf(localizable_data.strings, last.key)[last.language]
          # NewEntry(last.text)

\* C4: in every state and for every key, language and text, inserting twice
\* gives the catalog and the insertion count that inserting once gives
C4_InsertTwiceIsInsertOnce ==
    \A k \in Keys, l \in LangCodes, t \in Texts :
        LET once == insert_translation(localizable_data, translations_inserted, k, l, t)
            twice == insert_translation(once.data, once.inserted, k, l, t)
        IN twice = once

\* an insertion took effect, and the same call again changes nothing
C4_Witness ==
    /\ last.op = "insert_translation"
    /\ translations_inserted > 0
    /\ last.key \in DOMAIN localizable_data.strings
    /\ last.language \in DOMAIN LocalizationsOf(localizable_data.strings, last.key)
    /\ LocalizationsOf(localizable_data.strings, last.key)[last.language]
          = NewEntry(last.text)
    /\ insert_translation(localizable_data, translations_inserted,
                          last.key, last.language, last.text)
          = [data |-> localizable_data, inserted |-> translations_inserted]

\* C5: a call of insert_translation for a key the catalog does not hold leaves
\* the catalog and the insertion count as they were
C5_AbsentKeyIsNoOp ==
    [][ ( /\ last'.op = "insert_translation"
          /\ last'.key \notin DOMAIN localizable_data.strings )
        => /\ localizable_data' = localizable_data
           /\ translations_inserted' = translations_inserted ]_vars

\* insert_translation was called for a key the catalog does not hold
C5_Witness ==
    /\ last.op = "insert_translation"
    /\ last.key \notin DOMAIN localizable_data.strings

\* the insertion count is the number of entries added since the load
InsertionCountIsEntriesAdded ==
    translations_inserted
        = Cardinality(EntriesOf(localizable_data.strings) \ EntriesOf(loaded_strings))

\* a call for a key that has no entry for the language adds that one entry,
\* in state "translated" with the given text, and counts it
InsertAddsOneEntry ==
    ( /\ last'.op = "insert_translation"
      /\ last'.key \in DOMAIN localizable_data.strings
      /\ last'.language \notin DOMAIN LocalizationsOf(localizable_data.strings, last'.key) )
    => /\ DOMAIN localizable_data'.strings = DOMAIN localizable_data.strings
       /\ EntriesOf(localizable_data'.strings)
             = EntriesOf(localizable_data.strings) \cup {<<last'.key, last'.language>>}
       /\ LocalizationsOf(localizable_data'.strings, last'.key)[last'.language]
             = [stringUnit |-> [state |-> "translated", value |-> last'.text]]
       /\ translations_inserted' = translations_inserted + 1

\* C6: insert_translation for an existing key without an entry for the
\* language creates exactly that entry (state "translated", the given text)
\* and adds one to the insertion count; the count always is the number of
\* entries added, preserved entries and absent keys not counted
C6_InsertCreatesAndCounts ==
    []InsertionCountIsEntriesAdded /\ [][InsertAddsOneEntry]_vars

\* two entries were inserted, and the last call was one that inserts nothing
C6_Witness ==
    /\ translations_inserted = 2
    /\ Cardinality(EntriesOf(localizable_data.strings) \ EntriesOf(loaded_strings)) = 2
    /\ EntriesOf(loaded_strings) # {}
    /\ last.op = "insert_translation"
    /\ \/ last.key \notin DOMAIN localizable_data.strings
       \/ <<last.key, last.language>> \in EntriesOf(loaded_strings)

\* C25: in every state, for every language l the gap report lists for a key
\* k and every text t, the report made after insert_translation(k, l, t)
\* lists for k the languages it listed before without l, in the same order
\* (k is not in it when no language is left), and lists for every other key
\* what it listed before; no key is new in it
C25_InsertionClosesOneGap ==
    LET before == find_missing_translations(localizable_data, supported_languages, keys_data)
    IN \A k \in DOMAIN before : \A l \in Elements(before[k]), t \in Texts :
          LET inserted == insert_translation(localizable_data, translations_inserted, k, l, t)
              after == find_missing_translations(inserted.data, supported_languages, keys_data)
              left == SelectSeq(before[k], LAMBDA m : m # l)
          IN /\ DOMAIN after = IF left = <<>> THEN DOMAIN before \ {k} ELSE DOMAIN before
             /\ k \in DOMAIN after => after[k] = left
             /\ \A other \in DOMAIN before \ {k} : after[other] = before[other]

\* an insertion closed a gap of a key that has another gap left, while
\* another key has gaps too
C25_Witness ==
    LET now == find_missing_translations(localizable_data, supported_languages, keys_data)
    IN /\ last.op = "insert_translation"
       /\ translations_inserted > 0
       /\ last.language \in Elements(supported_languages)
       /\ last.key \in DOMAIN now
       /\ last.language \notin Elements(now[last.key])
       /\ LocalizationsOf(localizable_data.strings, last.key)[last.language]
             = NewEntry(last.text)
       /\ DOMAIN now # {last.key}

----------------------------------------------------------------------------
(* Format specifiers through translate *)

\* the number of characters of an atom
Width(atom) == Len(atom)

\* the number of characters of a text
RECURSIVE Chars(_)
Chars(text) == IF text = <<>> THEN 0 ELSE Width(Head(text)) + Chars(Tail(text))

\* the specifiers of a text, each with the number of characters before it
Occurrences(text) ==
    { [offset |-> Chars(SubSeq(text, 1, p - 1)),
       spec |-> SubSeq(text, p, p + match_length(text, p) - 1)] :
        p \in { q \in 1..Len(text) : match_length(text, q) > 0 } }

\* the sentinels a text holds as literal text
Sentinels(text) == { a \in Elements(text) : Width(a) > 1 }

\* how often x is in a list
Count(list, x) == Cardinality({ i \in 1..Len(list) : list[i] = x })

\* two lists with the same elements, each as often in one as in the other
SameMultiset(a, b) ==
    \A x \in Elements(a) \cup Elements(b) : Count(a, x) = Count(b, x)

\* the external service printed the text it was given
Echoed ==
    /\ last.op = "translate"
    /\ ext = [kind |-> "exit 0", stdout |-> protect(source_text).protected_text]

\* C7: when the external service prints the sentinel-bearing text it was
\* given, the text translate has after putting the specifiers back holds
\* every specifier of the source text at the place it has in the source text
\* (the places counted without the white space translate strips off)
C7_RoundTripRestoresSpecifiers ==
    Echoed => Occurrences(strip(source_text)) \subseteq Occurrences(restored.text)

\* the source text holds the text of the first sentinel and one specifier:
\* with the text echoed, the specifier comes back twice and the call fails
C7_Witness ==
    /\ Echoed
    /\ source_text = placeholder(0) \o <<"%", "@">>
    /\ restored.text = <<"%", "@", "%", "@">>
    /\ ret = None

\* the text translate returned has the specifiers of the source text, each as
\* often as the source text
ReturnedTextKeepsSpecifiers ==
    (last.op # "init" /\ ret # None) =>
        SameMultiset(extract_format_specifiers(ret.text),
                     extract_format_specifiers(source_text))

\* a restored text with other specifiers than the source text is not returned
CorruptedTextIsRejected ==
    (/\ last.op # "init"
     /\ restored # None
     /\ ~SameMultiset(extract_format_specifiers(restored.text),
                      extract_format_specifiers(source_text)))
    => ret = None

\* a call of translate that fails leaves the catalog as it is
FailedTranslationIsNotInserted ==
    (last.op = "init" /\ ret' = None) => UNCHANGED <<localizable_data, translations_inserted>>

\* C8: the text translate returns has the same multiset of format specifiers
\* as the source text; when the restored text has another multiset (a
\* specifier dropped, added, duplicated, or left as a sentinel), translate
\* returns the failure value and nothing is inserted into the catalog
C8_SpecifierMismatchIsRejected ==
    /\ []ReturnedTextKeepsSpecifiers
    /\ []CorruptedTextIsRejected
    /\ [][FailedTranslationIsNotInserted]_vars

\* the external service printed the sentinel of the only specifier twice: the
\* restored text has the specifier twice, the call failed, nothing inserted
C8_Witness ==
    /\ last.op = "translate, insert_translation"
    /\ ext.kind = "exit 0"
    /\ Len(extract_format_specifiers(source_text)) = 1
    /\ restored # None
    /\ Len(extract_format_specifiers(restored.text)) = 2
    /\ ret = None
    /\ localizable_data.strings[TrKey] = <<>>
    /\ translations_inserted = 0

----------------------------------------------------------------------------
(* The new-key tracker *)

\* C9: find_new_keys returns, each once, exactly the tracked keys that are
\* absent from the catalog or have no translation; a tracked key with an
\* entry is not returned, whatever languages it lacks
C9_NewKeysAreUntranslatedTrackedKeys ==
    last.op = "find_new_keys" =>
        /\ Elements(ret.new_keys) = NewNow
        /\ Len(ret.new_keys) = Cardinality(NewNow)
        /\ new_keys = ret.new_keys

\* a tracked key with one entry that lacks a supported language is not
\* returned, while an absent one and one without translations are
C9_Witness ==
    /\ last.op = "find_new_keys"
    /\ LET strings == localizable_data.strings
       IN /\ \E k \in DOMAIN strings :
                /\ Tracked(k)
                /\ Cardinality(DOMAIN LocalizationsOf(strings, k)) = 1
                /\ MissingAt(supported_languages, LocalizationsOf(strings, k)) # {}
                /\ k \notin Elements(ret.new_keys)
          /\ \E k \in Elements(ret.new_keys) : k \notin DOMAIN strings
          /\ \E k \in Elements(ret.new_keys) : k \in DOMAIN strings

\* the structure has the three top-level fields and maps every key to an
\* empty record
ToLocalizeShape(t) ==
    /\ DOMAIN t = {"sourceLanguage", "strings", "version"}
    /\ \A k \in DOMAIN t.strings : t.strings[k] = <<>>

\* C10 as stated: the structure create_to_localize_structure returns holds
\* exactly the tracked keys that are new when it is produced
C10_StructureHoldsKeysNewAtCall ==
    last.op = "create_to_localize_structure" =>
        /\ ToLocalizeShape(ret.to_localize)
        /\ DOMAIN ret.to_localize.strings = NewNow

\* the structure holds the keys of the tracker's new_keys list
StructureHoldsNewKeysList ==
    last.op = "create_to_localize_structure" =>
        /\ ToLocalizeShape(ret.to_localize)
        /\ DOMAIN ret.to_localize.strings = Elements(new_keys)

\* called right after find_new_keys, the structure holds the keys new then
StructureAfterFindHoldsNewKeys ==
    (last.op = "find_new_keys" /\ last'.op = "create_to_localize_structure")
    => DOMAIN ret'.to_localize.strings = NewNow

\* C10 amended: the structure has the fields sourceLanguage, strings and
\* version, and its strings mapping holds exactly the keys of the list the
\* last find_new_keys call left in new_keys (no key before the first call),
\* each with an empty record; right after find_new_keys these are the
\* tracked keys new at that time
C10_StructureHoldsKeysOfLastFind ==
    []StructureHoldsNewKeysList /\ [][StructureAfterFindHoldsNewKeys]_vars

\* a structure with a key in it that is exactly the keys new at the call
C10_Witness ==
    /\ last.op = "create_to_localize_structure"
    /\ ret.to_localize.strings # <<>>
    /\ DOMAIN ret.to_localize.strings = NewNow

----------------------------------------------------------------------------
(* A run of main *)

\* the run has ended
Ended == pc = "done"

\* an input document is missing or is not JSON, or the catalog lacks one of
\* sourceLanguage, strings, version
FatalInput ==
    \/ \E d \in {"localizable", "languages", "keys"} : files[d] \in {"missing", "malformed"}
    \/ files.localizable = "ok" /\ {"sourceLanguage", "strings", "version"} \ files.fields # {}

\* C11: with a missing or malformed input document, or a catalog lacking a
\* required field, the run ends at once with exit status 1: no gap detection,
\* no translate call, no invocation of the service, no insertion, no tracking
C11_FatalInputEndsRun ==
    (FatalInput /\ pc # "load") =>
        /\ Ended
        /\ exit_status = "1"
        /\ reached = {}
        /\ main_missing_translations = None
        /\ attempted = <<>>
        /\ submitted = <<>>
        /\ localizable_data.strings = loaded_strings
        /\ translations_inserted = 0

\* the three documents are there and are JSON, the catalog lacks
\* sourceLanguage: the run ended with 1
C11_Witness ==
    /\ Ended
    /\ files = [localizable |-> "ok", languages |-> "ok", keys |-> "ok",
                fields |-> {"strings", "version"}]
    /\ exit_status = "1"

\* the pairs main translates: key k of the gap report and language i of
\* its missing languages, for k and i up to three
PairsOfRun ==
    LET mt == main_missing_translations
        keys == Members(mt)
    IN UNION { { <<keys[k], mt[keys[k]][i]>> :
                   i \in { n \in 1..Len(mt[keys[k]]) : n <= SampleSize } } :
               k \in { n \in 1..Len(keys) : n <= SampleSize } }

\* the translate calls made for a pair so far
AttemptsOf(pair) ==
    { i \in 1..Len(attempted) : <<attempted[i].key, attempted[i].language>> = pair }

\* both loops are over: each pair was handed to translate in each of them
EveryPairAttempted ==
    (pc \in {"summary", "track", "done"} /\ attempted # <<>>) =>
        \A pair \in PairsOfRun : Cardinality(AttemptsOf(pair)) = 2

\* a run that called translate ends with exit status 0
TranslationFailureIsNotFatal ==
    (Ended /\ attempted # <<>>) => exit_status = "0"

\* after a translate call that failed the run goes on: with the next pair,
\* or behind the loop when the pair was the last one
RunGoesOnAfterFailure ==
    (Len(attempted') > Len(attempted) /\ ret' = None) =>
        /\ exit_status' = "running"
        /\ Len(todo) > 1 => (todo' = Tail(todo) /\ pc' = pc)
        /\ Len(todo) = 1 => pc' \in {"insert", "summary"}

\* C12: a translate call that fails (missing language pack, time-out,
\* rejected specifiers) returns the failure value; the run goes on with the
\* next pair, attempts every pair, and ends with exit status 0
C12_FailedTranslationIsSkipped ==
    /\ []EveryPairAttempted
    /\ []TranslationFailureIsNotFatal
    /\ [][RunGoesOnAfterFailure]_vars

\* a run whose first translate call failed, whose second gave a text, and
\* which ended with 0
C12_Witness ==
    /\ Ended
    /\ exit_status = "0"
    /\ Len(attempted) > 1
    /\ attempted[1].result = "failed"
    /\ attempted[2].result = "text"

\* C14: no (key, language) pair is handed to the external service more than
\* once in a run
C14_NoPairSubmittedTwice ==
    \A i, j \in 1..Len(submitted) :
        i # j =>
            <<submitted[i].source, submitted[i].language>>
                # <<submitted[j].source, submitted[j].language>>

\* C15: a run with --dry-run creates and modifies no file
C15_DryRunWritesNoFile == (pc # "no run" /\ args.dry_run) => written = {}

\* C16: a run whose three documents load and whose catalog has its fields
\* reaches the tracker and ends with exit status 0
C16_LoadedRunEndsWithZero ==
    (Ended /\ ~FatalInput /\ "unreadable" \notin {files.localizable, files.languages, files.keys})
    => (exit_status = "0" /\ "tracking" \in reached)

\* the catalog has an entry for the pair
HasEntry(pair) ==
    pair[2] \in DOMAIN Get(localizable_data.strings[pair[1]], "localizations", <<>>)

\* every pair of the gap report
PairsOfGapReport ==
    UNION { { <<key, main_missing_translations[key][i]>> :
                i \in 1..Len(main_missing_translations[key]) } :
            key \in DOMAIN main_missing_translations }

\* C17 as stated: at the end of a run with the capability available and no
\* translate call failed, every pair of the gap report has an entry
C17_EveryGapFilled ==
    (/\ Ended /\ exit_status = "0" /\ framework_available
     /\ \A i \in 1..Len(attempted) : attempted[i].result # "failed")
    => \A pair \in PairsOfGapReport : HasEntry(pair)

\* C17 amended: at the end of a run with the capability available and every
\* translate call returning a text that is not empty, the pairs of the gap
\* report with an entry are those of the first three languages of each of
\* its first three keys
C17_EverySampledGapFilled ==
    (/\ Ended /\ exit_status = "0" /\ framework_available
     /\ \A i \in 1..Len(attempted) : attempted[i].result = "text")
    => \A pair \in PairsOfGapReport : HasEntry(pair) <=> pair \in PairsOfRun

\* four languages were missing for a key, every call gave a text: the first
\* three languages have an entry, the fourth has none
C17_Witness ==
    /\ Ended /\ exit_status = "0" /\ framework_available
    /\ Len(attempted) = 6
    /\ \A i \in 1..Len(attempted) : attempted[i].result = "text"
    /\ main_missing_translations = ("Save" :> <<"en", "fr", "de", "es">>)
    /\ DOMAIN localizable_data.strings["Save"].localizations = {"en", "fr", "de"}

\* C26: at every point of a run, whatever the external service did in each
\* call, the number of translations inserted into the catalog is at most the
\* number counted as generated (translations_generated)
C26_InsertedAtMostGenerated ==
    statistics # None => translations_inserted <= statistics.generated

\* a run that ended with a translation inserted and none counted as generated
C26_Witness ==
    /\ Ended
    /\ statistics # None
    /\ statistics.generated = 0
    /\ statistics.skipped > 0
    /\ translations_inserted > 0

----------------------------------------------------------------------------
(* Sequences of calls *)

\* the languages of the invocations that ended with an exit status other
\* than 0 and "Error:" on stderr, which translate takes for a missing pack
MissingPackFailures ==
    { submitted[i].language :
        i \in { j \in 1..Len(submitted) : submitted[j].kind = "exit 1, Error: on stderr" } }

PacksAreTheMissingPackFailures == missing_language_packs = MissingPackFailures

PacksOnlyGrow == missing_language_packs \subseteq missing_language_packs'

\* C13: over any sequence of translate calls missing_language_packs only
\* grows, and holds exactly the languages of the calls that failed for a
\* missing language pack; no other outcome (time-out, capability
\* unavailable, rejected specifiers, another failure) adds a language
C13_MissingPacksAccumulate ==
    []PacksAreTheMissingPackFailures /\ [][PacksOnlyGrow]_vars

\* a call for "en" timed out and a call for "fr" found its pack missing:
\* only "fr" is in the set
C13_Witness ==
    /\ Len(submitted) = 2
    /\ submitted[1].language = "en" /\ submitted[1].kind = "timeout"
    /\ submitted[2].language = "fr" /\ submitted[2].kind = "exit 1, Error: on stderr"
    /\ missing_language_packs = {"fr"}

\* the calls that only read the catalog
ReadingCalls ==
    {"find_missing_translations", "translate", "batch_translate", "find_new_keys",
     "create_to_localize_structure"}

\* C18: find_missing_translations, translate, batch_translate, find_new_keys
\* and create_to_localize_structure leave the catalog, the language list and
\* the tracked-key document as they are; only insert_translation changes the
\* catalog
C18_OnlyInserterMutatesCatalog ==
    [][last'.op \in ReadingCalls =>
          UNCHANGED <<localizable_data, supported_languages, keys_data>>]_vars

\* batch_translate returned a translation over a catalog the inserter had
\* changed before, and with a new key to track
C18_Witness ==
    /\ last.op = "batch_translate"
    /\ ret.translations # <<>>
    /\ localizable_data.strings # loaded_strings
    /\ new_keys # <<>>

----------------------------------------------------------------------------
(* Validation of the format specifiers *)

\* C19: whenever the specifiers of the translated text are those of the
\* source text, each as often as there and in any order, the validation
\* accepts the translated text
C19_ValidationIgnoresOrder ==
    (/\ last.op = "_validate_format_specifiers"
     /\ SameMultiset(extract_format_specifiers(source_text),
                     extract_format_specifiers(restored.text)))
    => ret.valid

\* %1$@ and %2$@ swapped in the translated text, and accepted
C19_Witness ==
    /\ last.op = "_validate_format_specifiers"
    /\ source_text = <<"%", "1", "$", "@", " ", "%", "2", "$", "@">>
    /\ restored.text = <<"%", "2", "$", "@", " ", "%", "1", "$", "@">>
    /\ ret.valid

----------------------------------------------------------------------------
(* Protection of the format specifiers *)

\* the text with its i-th specifier occurrence, counted from 0 and from
\* position p on, replaced where it stands by the i-th sentinel
RECURSIVE SentinelsInPlace(_, _, _)
SentinelsInPlace(text, p, i) ==
    IF p > Len(text) THEN <<>>
    ELSE LET n == match_length(text, p)
         IN IF n > 0
            THEN placeholder(i) \o SentinelsInPlace(text, p + n, i + 1)
            ELSE <<text[p]>> \o SentinelsInPlace(text, p + 1, i)

\* C20: the text translate hands to the external service is the source text
\* with its i-th specifier occurrence replaced, where it stands, by the i-th
\* sentinel; the record of the sentinels maps the i-th sentinel to the i-th
\* specifier; and the text handed over holds no format specifier
C20_ProtectionReplacesEachOccurrence ==
    (last.op = "translate" /\ submitted # <<>>) =>
        LET specs == extract_format_specifiers(source_text)
            map == protect(source_text).placeholder_map
        IN /\ submitted[Len(submitted)].text = SentinelsInPlace(source_text, 1, 0)
           /\ Len(map) = Len(specs)
           /\ \A i \in 1..Len(specs) :
                 map[i] = [placeholder |-> placeholder(i - 1), spec |-> specs[i]]
           /\ extract_format_specifiers(submitted[Len(submitted)].text) = <<>>

\* a text with the same specifier twice was handed over with two sentinels
C20_Witness ==
    /\ last.op = "translate"
    /\ source_text = <<"%", "d", "%", "d">>
    /\ Len(submitted) = 1
    /\ submitted[1].text = placeholder(0) \o placeholder(1)

----------------------------------------------------------------------------
(* batch_translate *)

\* the translate calls of the last batch_translate that did not fail
Succeeded == { i \in 1..Len(attempted) : attempted[i].result # "failed" }

\* C22: batch_translate calls translate once for each target language, in
\* list order and with its text, whatever the earlier calls came to; the
\* mapping it returns has exactly the languages whose call did not fail
\* (returned a text, the empty one included), each with the text its call
\* returned; without the framework it calls nothing and returns the empty
\* mapping.
C22_BatchTranslate ==
    last.op = "batch_translate" =>
        IF ~framework_available
        THEN attempted = <<>> /\ DOMAIN ret.translations = {}
        ELSE /\ Len(attempted) = Len(last.language)
             /\ \A i \in 1..Len(attempted) :
                    /\ attempted[i].language = last.language[i]
                    /\ attempted[i].text = last.text
             /\ DOMAIN ret.translations = { attempted[i].language : i \in Succeeded }
             /\ \A i \in Succeeded :
                    (\A j \in Succeeded : attempted[j].language = attempted[i].language => j <= i)
                        => ret.translations[attempted[i].language] = attempted[i].returned.text

\* a batch whose first call failed and whose second returned a text
C22_Witness ==
    /\ last.op = "batch_translate"
    /\ framework_available
    /\ Len(attempted) = 2
    /\ attempted[1].result = "failed"
    /\ attempted[2].result = "text"
    /\ DOMAIN ret.translations = {"fr"}

----------------------------------------------------------------------------
(* The website generator *)

\* t is the text out without the whitespace at its two ends
IsStripped(out, t) ==
    \E i \in 1..Len(out) + 1, j \in 0..Len(out) :
        /\ t = SubSeq(out, i, j)
        /\ \A p \in 1..Len(out) : (p < i \/ p > j) => out[p] \in Whitespace
        /\ t # <<>> => t[1] \notin Whitespace /\ t[Len(t)] \notin Whitespace

OnlyWhitespace(out) == \A p \in 1..Len(out) : out[p] \in Whitespace

\* C24 as stated: translate_text returns its text as it is for the target
\* "en" (the bridge is not run), when the bridge exits non-zero, raises or
\* times out, and when it prints nothing; in every other case it returns the
\* output of the bridge without the whitespace at its ends.
C24_UnchangedOnlyOnEmptyOutput ==
    last.op = "translate_text" =>
        /\ last.language = "en" => submitted = <<>>
        /\ IF last.language = "en" \/ ext.kind # "exit 0" \/ ext.stdout = <<>>
           THEN ret.text = source_text
           ELSE IsStripped(ext.stdout, ret.text)

\* C24: translate_text returns its text as it is for the target "en" (the
\* bridge is not run), when the bridge exits non-zero, raises or times out,
\* and when it prints nothing but whitespace; in every other case it returns
\* the output of the bridge without the whitespace at its ends.
C24_UnchangedOnBlankOutput ==
    last.op = "translate_text" =>
        /\ last.language = "en" => submitted = <<>>
        /\ IF last.language = "en" \/ ext.kind # "exit 0" \/ OnlyWhitespace(ext.stdout)
           THEN ret.text = source_text
           ELSE IsStripped(ext.stdout, ret.text)

\* the bridge exited 0 after printing whitespace only, and the text came back
C24_Witness ==
    /\ last.op = "translate_text"
    /\ last.language = "fr"
    /\ ext.kind = "exit 0"
    /\ ext.stdout = <<" ">>
    /\ source_text = <<"a">>
    /\ ret.text = <<"a">>
    /\ Len(submitted) = 1

\* the number of strings in a JSON value, at any depth
RECURSIVE strings_in(_)
RECURSIVE strings_in_all(_)
strings_in_all(values) ==
    IF values = <<>> THEN 0 ELSE strings_in(Head(values)) + strings_in_all(Tail(values))

strings_in(value) ==
    IF value.type = "str" THEN 1
    ELSE IF value.type = "dict"
    THEN strings_in_all([i \in 1..Len(items(value.entries)) |->
                            value.entries[items(value.entries)[i]]])
    ELSE IF value.type = "list" THEN strings_in_all(value.elements)
    ELSE 0

\* w has the keys and the nesting of v, a string where v has one, each of
\* them a text translate_text can return for it, and the value of v
\* wherever v is neither a string nor a container
RECURSIVE TranslationOf(_, _, _)
TranslationOf(v, w, target_lang) ==
    IF v.type = "dict"
    THEN /\ w.type = "dict"
         /\ DOMAIN w.entries = DOMAIN v.entries
         /\ \A key \in DOMAIN v.entries :
                TranslationOf(v.entries[key], w.entries[key], target_lang)
    ELSE IF v.type = "list"
    THEN /\ w.type = "list"
         /\ Len(w.elements) = Len(v.elements)
         /\ \A i \in 1..Len(v.elements) :
                TranslationOf(v.elements[i], w.elements[i], target_lang)
    ELSE IF v.type = "str"
    THEN /\ w.type = "str"
         /\ \E e \in WebOutcomes : w.text = translate_text(v.text, target_lang, e).ret
    ELSE w = v

\* C23: translate_dict returns a value with the keys and the nesting of its
\* input, in which every string, at any depth, went through translate_text
\* for the target language (one run of the bridge for each string when the
\* target is not "en") and every other value is the one of the input.
C23_EveryStringTranslated ==
    last.op = "translate_dict" =>
        /\ TranslationOf(source_text, ret.data, last.language)
        /\ last.language # "en" => Len(submitted) = strings_in(source_text)

\* the strings met through dicts alone go through translate_text, each with
\* its own run of the bridge
DictStringsTranslated ==
    last.op = "translate_dict" =>
        /\ TranslationOf(source_text, ret.data, last.language)
        /\ last.language # "en" => Len(submitted) = Cardinality(string_paths(source_text, ""))
        /\ \A i \in 1..Len(submitted) :
               \E path \in DOMAIN ext : submitted[i].kind = ext[path].kind

\* a document with a string in a list, translated to "fr"
C23_Witness ==
    /\ last.op = "translate_dict"
    /\ last.language = "fr"
    /\ source_text.type = "dict"
    /\ "tags" \in DOMAIN source_text.entries
    /\ ret.data.entries["tags"] = source_text.entries["tags"]
    /\ Len(submitted) = 1

====
